---------------------------- MODULE Spec2Model ----------------------------
(***************************************************************************)
(* The notebook dipole.ipynb as a state machine: one action per code cell, *)
(* executed top to bottom by the notebook kernel.                          *)
(*                                                                         *)
(* Python floats are modelled as fixed-point integers with SCALE units per *)
(* 1.0 (four decimals, the resolution of 27.2114 and 1.8897); every        *)
(* product, quotient and square root rounds to the nearest unit.  Python   *)
(* indices are 0-based, the sequences here are 1-based: cell[0] in the     *)
(* notebook is cell[1] here, and axis 2 is the third index of a sample.    *)
(***************************************************************************)
EXTENDS Integers, Sequences, FiniteSets, TLC

\* ------------------------------------------------------------ float model

\* Units per 1.0 of the fixed-point numbers.
SCALE == 10000

Abs(a) == IF a < 0 THEN -a ELSE a

Sgn(a) == IF a < 0 THEN -1 ELSE IF a = 0 THEN 0 ELSE 1

\* floor(a * b / SCALE) for a, b >= 0, without forming a * b.
ProdFloor(a, b) ==
    LET qa == a \div SCALE
        ra == a % SCALE
        qb == b \div SCALE
        rb == b % SCALE
    IN  qa * qb * SCALE + qa * rb + ra * qb + (ra * rb) \div SCALE

\* (a * b) mod SCALE for a, b >= 0.
ProdRem(a, b) == ((a % SCALE) * (b % SCALE)) % SCALE

\* a * b / SCALE for a, b >= 0, rounded to nearest.
MulNat(a, b) ==
    ProdFloor(a, b) + (IF 2 * ProdRem(a, b) >= SCALE THEN 1 ELSE 0)

\* Python's float product a * b.
MulFP(a, b) == Sgn(a) * Sgn(b) * MulNat(Abs(a), Abs(b))

\* a / d for an integer count d > 0, rounded to nearest.
DivInt(a, d) == Sgn(a) * ((2 * Abs(a) + d) \div (2 * d))

\* Python's float quotient a / b (b # 0), rounded to nearest.
DivFP(a, b) ==
    LET q == Abs(a) \div Abs(b)
        t == (Abs(a) % Abs(b)) * SCALE
        f == t \div Abs(b)
        u == IF 2 * (t % Abs(b)) >= Abs(b) THEN 1 ELSE 0
    IN  Sgn(a) * Sgn(b) * (q * SCALE + f + u)

\* The largest root the bisection considers (400.0: its square fits an int).
SqrtMax == 400 * SCALE

RECURSIVE SqrtSearch(_, _, _)
\* The largest r in lo..hi-1 with r * r <= n * SCALE, given that lo is one.
SqrtSearch(n, lo, hi) ==
    IF hi - lo <= 1 THEN lo
    ELSE LET mid == (lo + hi) \div 2
             f   == ProdFloor(mid, mid)
         IN  IF f < n \/ (f = n /\ ProdRem(mid, mid) = 0)
             THEN SqrtSearch(n, mid, hi)
             ELSE SqrtSearch(n, lo, mid)

\* The square root of n >= 0, rounded to nearest.
SqrtFP(n) ==
    LET r == SqrtSearch(n, 0, SqrtMax)
    IN  IF ProdFloor(r, r + 1) < n THEN r + 1 ELSE r

\* ------------------------------------------------------------ numpy

\* np.cross(a, b) of two 3-vectors.
Cross(a, b) ==
    << MulFP(a[2], b[3]) - MulFP(a[3], b[2]),
       MulFP(a[3], b[1]) - MulFP(a[1], b[3]),
       MulFP(a[1], b[2]) - MulFP(a[2], b[1]) >>

\* np.linalg.norm(v) of a 3-vector.
Norm(v) == SqrtFP(MulFP(v[1], v[1]) + MulFP(v[2], v[2]) + MulFP(v[3], v[3]))

\* matrix * scalar, entry by entry.
ScaleMatrix(m, k) == [i \in 1..3 |-> [j \in 1..3 |-> MulFP(m[i][j], k)]]

RECURSIVE MinOfSeq(_)
\* Python's min() of a non-empty list.
MinOfSeq(s) ==
    IF Len(s) = 1 THEN s[1]
    ELSE LET m == MinOfSeq(Tail(s))
         IN  IF s[1] <= m THEN s[1] ELSE m

RECURSIVE SumSeq(_)
\* The sum of a sequence of numbers.
SumSeq(s) == IF s = << >> THEN 0 ELSE s[1] + SumSeq(Tail(s))

\* np.linspace(start, stop, num): num points, the end point included.
Linspace(start, stop, num) ==
    IF num = 1 THEN << start >>
    ELSE LET step == DivInt(stop - start, num - 1)
         IN  [i \in 1..num |-> IF i = num THEN stop ELSE start + (i - 1) * step]

\* ------------------------------------------------------------ pyiron

\* The value of sample v at index k of axis ind and indices a, b of the two
\* other axes, taken in ascending order of axis.
At(v, ind, k, a, b) ==
    IF ind = 0 THEN v.data[<<k, a, b>>]
    ELSE IF ind = 1 THEN v.data[<<a, k, b>>]
    ELSE v.data[<<a, b, k>>]

\* The extents of the two axes of v other than ind.
OtherExtents(v, ind) ==
    IF ind = 0 THEN <<v.shape[2], v.shape[3]>>
    ELSE IF ind = 1 THEN <<v.shape[1], v.shape[3]>>
    ELSE <<v.shape[1], v.shape[2]>>

\* VolumetricData.get_average_along_axis(ind): for each index k of axis ind
\* the mean of the values that share it.
GetAverageAlongAxis(v, ind) ==
    LET e == OtherExtents(v, ind)
    IN  [k \in 1..v.shape[ind + 1] |->
            DivInt(SumSeq([a \in 1..e[1] |->
                       SumSeq([b \in 1..e[2] |-> At(v, ind, k, a, b)])]),
                   e[1] * e[2])]

\* ------------------------------------------------------------ notebook

HARTREE_TO_EV == 272114

ANGSTROM_TO_BOHR == 18897

\* np.pi
PI == 31416

\* CellBohr without the conversion: the cell left in Angstrom.
CellAngstrom(c) == c

\* cell = job.structure.cell * ANGSTROM_TO_BOHR
CellBohr(c) == ScaleMatrix(c, ANGSTROM_TO_BOHR)

\* Area with the third row taken for the second.
AreaOutOfPlane(cb) == Norm(Cross(cb[1], cb[3]))

\* area = np.linalg.norm(np.cross(cell[0], cell[1]))
Area(cb) == Norm(Cross(cb[1], cb[2]))

\* TotalCharge with the left field left out.
TotalChargeRightOnly(rf, lf, a) == DivFP(MulFP(rf, a), 4 * PI)

\* TotalCharge with the fields added instead of subtracted.
TotalChargeSum(rf, lf, a) == DivFP(MulFP(rf + lf, a), 4 * PI)

\* total_charge = (right_field - left_field) * area / (4 * np.pi)
TotalCharge(rf, lf, a) == DivFP(MulFP(rf - lf, a), 4 * PI)

\* positions = [p[2] for p in job.structure.positions]
ZPositions(ps) == [i \in 1..Len(ps) |-> ps[i][3]]

\* ChargeGroup with the first atom taken for the lowest.
ChargeGroupFirst(q, zs) == [charge |-> q, z |-> zs[1]]

\* charge = Group({"charge": total_charge, "z": min(positions)})
ChargeGroup(q, zs) == [charge |-> q, z |-> MinOfSeq(zs)]

\* NExcessElectrons without the negation.
NExcessSameSign(q) == q

\* nExcessElectrons = -total_charge
NExcessElectrons(q) == -q

\* ZField without the conversion to eV.
ZFieldHartree(lf) == lf

\* zField = left_field * HARTREE_TO_EV
ZField(lf) == MulFP(lf, HARTREE_TO_EV)

\* FrozenAtoms with the half rounded up.
FrozenAtomsCeil(n) == 1..((n + 1) \div 2)

\* The atoms range(len(job.structure)//2) selects, for n atoms.
FrozenAtoms(n) == 1..(n \div 2)

\* PlanarAvg along the first axis.
PlanarAvgAxis0(v) == GetAverageAlongAxis(v, 0)

\* PlanarAvg along the second axis.
PlanarAvgAxis1(v) == GetAverageAlongAxis(v, 1)

\* planar_avg = v_electrostatic.get_average_along_axis(2)
PlanarAvg(v) == GetAverageAlongAxis(v, 2)

\* PlotAxis over the cell in Bohr, as the variable cell holds it.
PlotAxisBohr(c, n) == Linspace(0, MulFP(c[3][3], ANGSTROM_TO_BOHR), n)

\* PlotAxis over the first lattice vector's x component.
PlotAxisFirst(c, n) == Linspace(0, c[1][1], n)

\* x = np.linspace(0, job.structure.cell[2][2], len(planar_avg))
PlotAxis(c, n) == Linspace(0, c[3][3], n)

\* ProjectAfterRemove without the removal: the stored jobs kept.
ProjectKept(p) == p

\* pr.remove(enable=True): the project holds no job afterwards.
ProjectAfterRemove(p) == {}

\* job.run(run_again=True) starts the engine whatever the status of the job;
\* without run_again only a job that is new would be run.
StartsRun(status) == TRUE

\* Halts with the exception of a failed run caught and dropped.
HaltsNever(ok) == FALSE

\* job.run stands bare in its cell: an exception of a failed run is caught
\* nowhere and stops the execution.
Halts(ok) == ~ok

\* ------------------------------------------------------------ inputs

\* The largest number of grid points of a potential sample.
MaxGrid == 4

\* The values a grid point of the potential takes (in units of 1/SCALE eV).
PotValues == {-3, 4}

Shapes ==
    {s \in (1..MaxGrid) \X (1..MaxGrid) \X (1..MaxGrid) :
        s[1] * s[2] * s[3] <= MaxGrid}

GridOf(s) == (1..s[1]) \X (1..s[2]) \X (1..s[3])

\* The target fields a user may write into the charge cell (atomic units):
\* -0.05, -0.025, 0 and 0.05.
Fields == {-500, -250, 0, 500}

\* The structure pr.create_surface("Al", "fcc111", size=[1,1,4], vacuum=10)
\* builds: four atoms along z, lengths in Angstrom.
AlSlab ==
    [cell |-> << <<28638, 0, 0>>, <<14319, 24801, 0>>, <<0, 0, 270148>> >>,
     positions |-> << <<0, 0, 100000>>, <<14319, 8267, 123383>>,
                      <<0, 16534, 146765>>, <<0, 0, 170148>> >>]

\* An orthorhombic cell with a = 4.0; three atoms, not in order of z.
Ortho4 ==
    [cell |-> << <<40000, 0, 0>>, <<0, 40000, 0>>, <<0, 0, 200000>> >>,
     positions |-> << <<0, 0, 120000>>, <<20000, 20000, 100000>>,
                      <<0, 0, 140000>> >>]

\* A cell whose first two vectors are collinear; one atom.
Collinear ==
    [cell |-> << <<40000, 0, 0>>, <<80000, 0, 0>>, <<0, 0, 150000>> >>,
     positions |-> << <<0, 0, 75000>> >>]

\* A cell whose third vector is not along z; three atoms, the first the
\* lowest, the second the highest.
Tilted ==
    [cell |-> << <<30000, 0, 0>>, <<0, 50000, 0>>, <<20000, 0, 150000>> >>,
     positions |-> << <<0, 0, 60000>>, <<15000, 25000, 100000>>,
                      <<0, 25000, 82500>> >>]

\* A cell with negative and out-of-plane entries; two atoms, the second lower.
Skew ==
    [cell |-> << <<-30000, 10000, 0>>, <<20000, 40000, 5000>>,
                 <<0, 0, 125000>> >>,
     positions |-> << <<0, 0, 5000>>, <<10000, 0, -5000>> >>]

Structures == {AlSlab, Ortho4, Collinear, Tilted, Skew}

\* The jobs an earlier execution may have left in the project.
JobNames == {"Al_111", "other"}

\* A potential an earlier run of job Al_111 may have left with it.
StaleSample == [shape |-> <<1, 1, 1>>, data |-> [t \in GridOf(<<1, 1, 1>>) |-> 4]]

\* ------------------------------------------------------------ state

VARIABLES
    pc,              \* the index in CellOrder of the next cell to execute
    fault,           \* an uncaught exception has stopped the execution
    log,             \* the cells executed so far, in order
    project,         \* the names of the jobs stored in project ChargedRelax
    job_status,      \* "none", "initialized", "finished" or "aborted"
    structure,       \* job.structure
    input,           \* job.input
    run_count,       \* how many times job.run has been invoked
    submitted,       \* the configuration the engine received from job.run
    output,          \* the electrostatic potential stored with job Al_111
    rerun,           \* the execution began with a job Al_111 in the project
    right_field, left_field, cell, area, total_charge, positions,
    v_electrostatic, planar_avg, x,
    plotted          \* the (x, y) pair handed to plt.plot

vars == << pc, fault, log, project, job_status, structure, input, run_count,
           submitted, output, rerun, right_field, left_field, cell, area,
           total_charge, positions, v_electrostatic, planar_avg, x, plotted >>

namespace == << right_field, left_field, cell, area, total_charge, positions,
                v_electrostatic, planar_avg, x, plotted >>

ZeroMatrix == [i \in 1..3 |-> [j \in 1..3 |-> 0]]

NoStructure ==
    [cell |-> ZeroMatrix, positions |-> << >>, selective_dynamics |-> << >>]

\* The input of a job on which the notebook has set nothing yet.
NoInput ==
    [assigned |-> {}, calc |-> "", VaspPot |-> TRUE, potType |-> "",
     potential |-> "", kpoints |-> <<0, 0, 0>>, center_shift |-> <<0, 0, 0>>,
     charged |-> [charge |-> 0, z |-> 0], nExcessElectrons |-> 0,
     dipoleCorrection |-> FALSE, zField |-> 0]

NoSample == [shape |-> <<0, 0, 0>>, data |-> << >>]

\* CellOrder with the run cell placed before the dipole cell.
CellOrderRunEarly ==
    << "create_job", "build_structure", "freeze", "setup_dft", "set_kpoints",
       "charge_setup", "run", "dipole_setup", "plot" >>

\* The code cells that change state, in the order of the notebook file.
CellOrder ==
    << "create_job", "build_structure", "freeze", "setup_dft", "set_kpoints",
       "charge_setup", "dipole_setup", "run", "plot" >>

\* The kernel executes cell c next: no fault so far, and c is the next cell.
AtCell(c) == ~fault /\ pc <= Len(CellOrder) /\ CellOrder[pc] = c

\* What every cell does on completing normally.
Advance(c) == pc' = pc + 1 /\ log' = Append(log, c)

Init ==
    /\ pc = 1
    /\ fault = FALSE
    /\ log = << >>
    /\ project \in SUBSET JobNames
    /\ job_status = "none"
    /\ structure = NoStructure
    /\ input = NoInput
    /\ run_count = 0
    /\ submitted = [input |-> NoInput, structure |-> NoStructure]
    /\ output \in (IF "Al_111" \in project THEN {NoSample, StaleSample}
                                         ELSE {NoSample})
    /\ rerun = ("Al_111" \in project)
    /\ right_field = 0 /\ left_field = 0
    /\ cell = ZeroMatrix /\ area = 0 /\ total_charge = 0
    /\ positions = << >>
    /\ v_electrostatic = NoSample
    /\ planar_avg = << >> /\ x = << >>
    /\ plotted = [x |-> << >>, y |-> << >>, shown |-> FALSE]

\* pr = Project("ChargedRelax"); pr.remove(enable=True);
\* job = pr.create_job(pr.job_type.Sphinx, "Al_111"): a new job, unless the
\* project holds one of that name, which is loaded with its result.
CreateJob ==
    /\ AtCell("create_job")
    /\ project' = ProjectAfterRemove(project)
    /\ output' = IF "Al_111" \in project' THEN output ELSE NoSample
    /\ job_status' = IF "Al_111" \in project' THEN "finished"
                                              ELSE "initialized"
    /\ structure' = NoStructure
    /\ input' = NoInput
    /\ Advance("create_job")
    /\ UNCHANGED << rerun, fault, run_count, submitted, namespace >>

\* job.structure = pr.create_surface(...);
\* job.structure.add_tag(selective_dynamics=(True, True, True))
BuildStructure ==
    /\ AtCell("build_structure")
    /\ \E s \in Structures :
          structure' =
              [cell |-> s.cell, positions |-> s.positions,
               selective_dynamics |->
                   [i \in 1..Len(s.positions) |-> <<TRUE, TRUE, TRUE>>]]
    /\ Advance("build_structure")
    /\ UNCHANGED << rerun, fault, project, job_status, input, run_count, submitted,
                    output, namespace >>

\* job.structure.selective_dynamics[range(len(job.structure)//2)] = (False,)*3
FreezeBottomHalf ==
    /\ AtCell("freeze")
    /\ structure' =
          [structure EXCEPT !.selective_dynamics =
              [i \in 1..Len(structure.positions) |->
                  IF i \in FrozenAtoms(Len(structure.positions))
                  THEN <<FALSE, FALSE, FALSE>>
                  ELSE structure.selective_dynamics[i]]]
    /\ Advance("freeze")
    /\ UNCHANGED << rerun, fault, project, job_status, input, run_count, submitted,
                    output, namespace >>

\* job.calc_minimize(); job.input["VaspPot"] = False; pawPot.species[0][...]
SetupDFT ==
    /\ AtCell("setup_dft")
    /\ input' = [input EXCEPT
                    !.assigned = @ \cup {"calc", "VaspPot", "potType", "potential"},
                    !.calc = "minimize",
                    !.VaspPot = FALSE,
                    !.potType = "AtomPAW",
                    !.potential = "Al_GGA.atomicdata"]
    /\ Advance("setup_dft")
    /\ UNCHANGED << rerun, fault, project, job_status, structure, run_count,
                    submitted, output, namespace >>

\* job.set_kpoints([9, 9, 1], center_shift=[0.5, 0.5, 0.25])
SetKpoints ==
    /\ AtCell("set_kpoints")
    /\ input' = [input EXCEPT
                    !.assigned = @ \cup {"kpoints", "center_shift"},
                    !.kpoints = <<9, 9, 1>>,
                    !.center_shift = <<5000, 5000, 2500>>]
    /\ Advance("set_kpoints")
    /\ UNCHANGED << rerun, fault, project, job_status, structure, run_count,
                    submitted, output, namespace >>

\* The cell "Charge the bottom layer of atoms"; the two fields are the
\* literals the user writes into it.
ChargeSetup ==
    /\ AtCell("charge_setup")
    /\ \E rf \in Fields, lf \in Fields :
          /\ right_field' = rf
          /\ left_field' = lf
    /\ cell' = CellBohr(structure.cell)
    /\ area' = Area(cell')
    /\ total_charge' = TotalCharge(right_field', left_field', area')
    /\ positions' = ZPositions(structure.positions)
    /\ input' = [input EXCEPT
                    !.assigned = @ \cup {"charged"},
                    !.charged = ChargeGroup(total_charge', positions')]
    /\ Advance("charge_setup")
    /\ UNCHANGED << rerun, fault, project, job_status, structure, run_count,
                    submitted, output, v_electrostatic, planar_avg, x,
                    plotted >>

\* The cell "Add the dipole correction to the PAWHamiltonian group".
DipoleSetup ==
    /\ AtCell("dipole_setup")
    /\ input' = [input EXCEPT
                    !.assigned = @ \cup {"nExcessElectrons", "dipoleCorrection",
                                         "zField"},
                    !.nExcessElectrons = NExcessElectrons(total_charge),
                    !.dipoleCorrection = TRUE,
                    !.zField = ZField(left_field)]
    /\ Advance("dipole_setup")
    /\ UNCHANGED << rerun, fault, project, job_status, structure, run_count,
                    submitted, output, namespace >>

\* job.run(run_again=True): the job is saved, the engine receives the input
\* and the structure, and the call returns when the engine has ended; the
\* engine ends well, leaving a potential, or fails.  A run that is not
\* started leaves the stored job and its result as they are.
RunJob ==
    /\ AtCell("run")
    /\ IF StartsRun(job_status)
       THEN /\ project' = project \cup {"Al_111"}
            /\ run_count' = run_count + 1
            /\ submitted' = [input |-> input, structure |-> structure]
            /\ \E ok \in BOOLEAN :
                  /\ fault' = Halts(ok)
                  /\ IF ok
                     THEN /\ job_status' = "finished"
                          /\ \E s \in Shapes :
                                \E d \in [GridOf(s) -> PotValues] :
                                   output' = [shape |-> s, data |-> d]
                     ELSE /\ job_status' = "aborted"
                          /\ output' = NoSample
       ELSE UNCHANGED << project, run_count, submitted, fault, job_status,
                         output >>
    /\ Advance("run")
    /\ UNCHANGED << rerun, structure, input, namespace >>

\* The cell "Plot the electrostatic potential".
PlotPotential ==
    /\ AtCell("plot")
    /\ v_electrostatic' = output
    /\ planar_avg' = PlanarAvg(v_electrostatic')
    /\ x' = PlotAxis(structure.cell, Len(planar_avg'))
    /\ plotted' = [x |-> x', y |-> planar_avg', shown |-> TRUE]
    /\ Advance("plot")
    /\ UNCHANGED << rerun, fault, project, job_status, structure, input, run_count,
                    submitted, output, right_field, left_field, cell, area,
                    total_charge, positions >>

Next ==
    \/ CreateJob
    \/ BuildStructure
    \/ FreezeBottomHalf
    \/ SetupDFT
    \/ SetKpoints
    \/ ChargeSetup
    \/ DipoleSetup
    \/ RunJob
    \/ PlotPotential

Spec == Init /\ [][Next]_vars

\* ------------------------------------------------------------ properties

\* Cell c has been executed.
Executed(c) == \E i \in 1..Len(log) : log[i] = c

\* The squared length of the cross product of 3-vectors a and b.
CrossSq(a, b) ==
    LET cx == MulFP(a[2], b[3]) - MulFP(a[3], b[2])
        cy == MulFP(a[3], b[1]) - MulFP(a[1], b[3])
        cz == MulFP(a[1], b[2]) - MulFP(a[2], b[1])
    IN  MulFP(cx, cx) + MulFP(cy, cy) + MulFP(cz, cz)

\* Row i of the structure's cell with every entry multiplied by 1.8897.
BohrRow(i) == [j \in 1..3 |-> MulFP(structure.cell[i][j], ANGSTROM_TO_BOHR)]

\* C1: once the charge cell has run, total_charge is
\* (right_field - left_field) * area / (4*pi), where area is the norm of the
\* cross product of the first two rows of the structure's cell, each entry
\* multiplied by 1.8897 first; and that area is 1.8897^2 times the area of the
\* cell in Angstrom^2, to within the rounding of the products (0.001 Bohr^2).
C1_TotalChargeFormula ==
    Executed("charge_setup") =>
        LET a   == SqrtFP(CrossSq(BohrRow(1), BohrRow(2)))
            ang == SqrtFP(CrossSq(structure.cell[1], structure.cell[2]))
            k2  == MulFP(ANGSTROM_TO_BOHR, ANGSTROM_TO_BOHR)
        IN  /\ area = a
            /\ total_charge = DivFP(MulFP(right_field - left_field, a), 4 * PI)
            /\ Abs(area - MulFP(k2, ang)) <= 10

\* C1 witness: the charge cell has run on the Al slab (a non-degenerate,
\* non-orthogonal cell) with different fields, and set a charge.
C1_Witness ==
    /\ Executed("charge_setup")
    /\ structure.cell = AlSlab.cell
    /\ right_field = 500 /\ left_field = -250
    /\ area > 0 /\ total_charge > 0

\* The four options the dipole correction needs.
DipoleOptions == {"charged", "nExcessElectrons", "dipoleCorrection", "zField"}

\* C2: when job.run is invoked (the kernel is at the run cell), and in what
\* the engine received from it, nExcessElectrons is the negation of the
\* 'charge' entry of initialGuess.rho.charged, which is total_charge, and
\* dipoleCorrection is True.
C2_ExcessElectronsNegateCharge ==
    /\ AtCell("run") =>
          /\ input.charged.charge = total_charge
          /\ input.charged.charge + input.nExcessElectrons = 0
          /\ input.dipoleCorrection = TRUE
    /\ run_count > 0 =>
          /\ submitted.input.charged.charge = total_charge
          /\ submitted.input.charged.charge
                + submitted.input.nExcessElectrons = 0
          /\ submitted.input.dipoleCorrection = TRUE

\* C2 witness: the engine has received a non-zero charge and its negation.
C2_Witness ==
    /\ run_count = 1
    /\ submitted.input.charged.charge > 0
    /\ submitted.input.nExcessElectrons < 0
    /\ submitted.input.dipoleCorrection

Min2(a, b) == IF a <= b THEN a ELSE b

\* C3 as stated: zField is the lower of the two fields times 27.2114, also
\* when left_field is greater than right_field.
C3_ZFieldIsLowerField ==
    Executed("dipole_setup") =>
        input.zField = MulFP(Min2(left_field, right_field), HARTREE_TO_EV)

\* C3 as amended: zField is left_field times 27.2114 for every pair of
\* fields (-1.3606 for the notebook's -0.05), which is the lower of the two
\* fields times 27.2114 whenever left_field <= right_field; the engine
\* receives that value.
C3_ZFieldIsLeftField ==
    /\ Executed("dipole_setup") =>
          /\ input.zField = MulFP(left_field, HARTREE_TO_EV)
          /\ left_field = -500 => input.zField = -13606
          /\ left_field <= right_field =>
                input.zField
                    = MulFP(Min2(left_field, right_field), HARTREE_TO_EV)
    /\ run_count > 0 =>
          submitted.input.zField = MulFP(left_field, HARTREE_TO_EV)

\* C3 witness: the dipole cell has run with left_field = 0.05 above
\* right_field = -0.05, and zField is 0.05 * 27.2114.
C3_Witness ==
    /\ Executed("dipole_setup")
    /\ left_field = 500 /\ right_field = -500
    /\ input.zField = 13606

\* C7: once the charge cell has run, the 'z' entry of the charge group is
\* the z coordinate of an atom and no atom lies below it, and the 'charge'
\* entry is the whole total_charge.
C7_ChargeAtLowestAtom ==
    Executed("charge_setup") =>
        /\ "charged" \in input.assigned
        /\ \A i \in 1..Len(structure.positions) :
              structure.positions[i][3] >= input.charged.z
        /\ \E i \in 1..Len(structure.positions) :
              structure.positions[i][3] = input.charged.z
        /\ input.charged.charge = total_charge

\* C7 witness: the charge cell has run on a structure whose lowest atom is
\* not its first, with a non-zero charge.
C7_Witness ==
    /\ Executed("charge_setup")
    /\ structure.positions = Ortho4.positions
    /\ input.charged.z = 100000
    /\ input.charged.z < structure.positions[1][3]
    /\ input.charged.charge # 0

\* A number of four decimals rounded to two.
Round2(a) == (a + 50) \div 100

\* The charge cell has run on the orthorhombic cell with a = 4.0 and the
\* fields 0.05 and -0.05.
C10_Scenario ==
    /\ Executed("charge_setup")
    /\ structure.cell = Ortho4.cell
    /\ right_field = 500 /\ left_field = -500

\* C10 as stated: in the scenario the area is 57.19 Bohr^2 to two decimals
\* and total_charge is 0.4550 to four.
C10_StatedDigits ==
    C10_Scenario => Round2(area) = 5719 /\ total_charge = 4550

\* C10 as amended: in the scenario the area is (1.8897 * 4.0)^2, which is
\* 57.14 Bohr^2 to two decimals, and total_charge is 0.10 * area / (4*pi),
\* which is 0.4547 to four decimals.
C10_ComputedDigits ==
    C10_Scenario =>
        LET a == MulFP(40000, ANGSTROM_TO_BOHR)
        IN  /\ area = MulFP(a, a)
            /\ Round2(area) = 5714
            /\ total_charge = DivFP(MulFP(1000, area), 4 * PI)
            /\ total_charge = 4547

\* C10 witness: the scenario has happened and the charge is 0.4547.
C10_Witness == C10_Scenario /\ area = 571355 /\ total_charge = 4547

RECURSIVE SumOver(_, _)
\* The sum of f over the set D of its arguments.
SumOver(f, D) ==
    IF D = {} THEN 0
    ELSE LET d == CHOOSE e \in D : TRUE
         IN  f[d] + SumOver(f, D \ {d})

\* The grid points of sample v in the plane of out-of-plane index k.
Plane(v, k) == {t \in DOMAIN v.data : t[3] = k}

\* C4: once the plot cell has run on a sample of extents (Nx, Ny, Nz),
\* planar_avg has an entry for every k in 1..Nz, which is the fixed-point
\* number nearest to the arithmetic mean of the Nx*Ny values with
\* out-of-plane index k; the sample is the one the engine wrote, and the
\* plotted sequence is planar_avg itself.
C4_PlanarAverageIsMean ==
    Executed("plot") =>
        LET n == v_electrostatic.shape[1] * v_electrostatic.shape[2]
        IN  /\ v_electrostatic = output
            /\ DOMAIN planar_avg = 1..v_electrostatic.shape[3]
            /\ \A k \in DOMAIN planar_avg :
                  /\ Cardinality(Plane(v_electrostatic, k)) = n
                  /\ 2 * Abs(planar_avg[k] * n
                             - SumOver(v_electrostatic.data,
                                       Plane(v_electrostatic, k))) <= n
            /\ plotted.y = planar_avg

\* C4 witness: the plot cell has run on a 2 x 1 x 2 sample whose first plane
\* holds -3 and -3 and whose second plane holds 4 and -3, the averages being
\* -3 and 0.5 (rounded to 1).
C4_Witness ==
    /\ Executed("plot")
    /\ v_electrostatic.shape = <<2, 1, 2>>
    /\ v_electrostatic.data[<<1, 1, 2>>] = 4
    /\ v_electrostatic.data[<<2, 1, 2>>] = -3
    /\ planar_avg = <<-3, 1>>

\* C5: once the plot cell has run, planar_avg has exactly as many entries as
\* the sample has points along its third axis, whatever its two in-plane
\* extents.
C5_LengthIsOutOfPlaneExtent ==
    Executed("plot") => Len(planar_avg) = output.shape[3]

\* C5 witness: the plot cell has run on a sample whose three extents
\* differ from one another only in the plane: 2 x 1 x 1 gives one entry.
C5_Witness ==
    /\ Executed("plot")
    /\ output.shape = <<2, 1, 1>>
    /\ Len(planar_avg) = 1

\* The plot axis is uniform: every step, times the number of steps, is the
\* length len to within the rounding of the step.
UniformOver(len) ==
    \A i \in 1..(Len(x) - 1) :
        Abs((x[i + 1] - x[i]) * (Len(x) - 1) - len)
            <= (Len(x) - 1) * (Len(x) - 1)

\* C6 as stated: x has len(planar_avg) points, starts at 0, ends at the
\* length of the third lattice vector and is uniform, for every cell and
\* every number of points n >= 1.
C6_AxisSpansVectorLength ==
    Executed("plot") =>
        /\ Len(x) = Len(planar_avg)
        /\ x[1] = 0
        /\ x[Len(x)] = Norm(structure.cell[3])
        /\ UniformOver(Norm(structure.cell[3]))

\* C6 as amended: x has len(planar_avg) points, starts at 0 and is uniform
\* over [0, cell[2][2]], the z component of the third lattice vector, which
\* is the vector's length when its x and y components are zero; with two or
\* more points x ends at cell[2][2], with one point x is the single point 0.
C6_AxisSpansZComponent ==
    Executed("plot") =>
        LET c3 == structure.cell[3]
        IN  /\ Len(x) = Len(planar_avg)
            /\ Len(x) >= 1
            /\ x[1] = 0
            /\ Len(x) >= 2 => x[Len(x)] = c3[3]
            /\ UniformOver(c3[3])
            /\ (c3[1] = 0 /\ c3[2] = 0) => c3[3] = Norm(c3)
            /\ plotted.x = x

\* C6 witness: the plot cell has run on the cell whose third vector is
\* (2, 0, 15), of length 15.13, with three points: x is 0, 7.5, 15.
C6_Witness ==
    /\ Executed("plot")
    /\ structure.cell = Tilted.cell
    /\ Norm(structure.cell[3]) > 150000
    /\ x = <<0, 75000, 150000>>

\* The place of cell c in the log (0: not executed).
PlaceOf(c) ==
    IF Executed(c) THEN CHOOSE i \in 1..Len(log) : log[i] = c ELSE 0

\* Cell a, if executed, was executed after cell b.
After(a, b) == Executed(a) => (Executed(b) /\ PlaceOf(b) < PlaceOf(a))

\* The order of the steps, as far as a state shows it.
C8_Order ==
    /\ After("dipole_setup", "charge_setup")
    /\ After("run", "dipole_setup")
    /\ After("plot", "run")
    /\ \A c \in {"charge_setup", "dipole_setup", "run", "plot"} :
          Cardinality({i \in 1..Len(log) : log[i] = c}) <= 1
    /\ run_count > 0 <=> Executed("run")
    /\ run_count > 0 =>
          /\ DipoleOptions \subseteq submitted.input.assigned
          /\ submitted.input.charged.charge = total_charge
          /\ submitted.input = input
    /\ (v_electrostatic # NoSample \/ planar_avg # << >> \/ plotted.shown) =>
          (Executed("run") /\ job_status = "finished")
    /\ plotted.shown =>
          (planar_avg = PlanarAvg(v_electrostatic) /\ v_electrostatic = output)

\* C8: in every execution the charge cell runs before the dipole cell, the
\* dipole cell before job.run and job.run before the plot cell, each at most
\* once; the engine receives the input with charged, nExcessElectrons,
\* dipoleCorrection and zField all assigned; the potential is retrieved,
\* averaged and plotted only after the run has returned well; and no step
\* taken after job.run was invoked changes the job's input or structure.
C8_StepOrder ==
    /\ []C8_Order
    /\ [][run_count > 0 => (input' = input /\ structure' = structure)]_vars

\* C8 witness: the whole notebook has run, the plot shown.
C8_Witness ==
    /\ log = CellOrder
    /\ plotted.shown
    /\ job_status = "finished"
    /\ DipoleOptions \subseteq submitted.input.assigned

\* C9: job.run is invoked at most once, and when the engine run has failed
\* the execution has stopped with a fault at the run cell: no potential was
\* retrieved, no average computed, nothing plotted, and no cell can run.
C9_FailedRunHalts ==
    /\ run_count <= 1
    /\ job_status = "aborted" =>
          /\ fault
          /\ run_count = 1
          /\ log[Len(log)] = "run"
          /\ ~Executed("plot")
          /\ v_electrostatic = NoSample
          /\ planar_avg = << >>
          /\ ~plotted.shown
          /\ \A c \in {CellOrder[i] : i \in 1..Len(CellOrder)} : ~AtCell(c)

\* C9 witness: the engine run has failed and the fault has stopped the
\* execution before the plot cell.
C9_Witness ==
    /\ job_status = "aborted"
    /\ fault
    /\ run_count = 1
    /\ pc = Len(CellOrder)

\* C11: once the charge cell has run with equal target fields, total_charge
\* and the 'charge' entry of the charge group are 0 whatever the cell, and
\* once the dipole cell has run nExcessElectrons is 0 too.
C11_EqualFieldsNoCharge ==
    (Executed("charge_setup") /\ right_field = left_field) =>
        /\ total_charge = 0
        /\ input.charged.charge = 0
        /\ Executed("dipole_setup") => input.nExcessElectrons = 0
        /\ run_count > 0 =>
              (submitted.input.charged.charge = 0
               /\ submitted.input.nExcessElectrons = 0)

\* C11 witness: both cells have run with both fields 0.05 on a cell of
\* non-zero area, and the charge is 0.
C11_Witness ==
    /\ Executed("dipole_setup")
    /\ right_field = 500 /\ left_field = 500
    /\ area > 0
    /\ total_charge = 0 /\ input.nExcessElectrons = 0

\* C12: once the charge cell has run, the charge computed for the pair
\* (-left_field, -right_field) on the same area is the total_charge computed
\* for (right_field, left_field).
C12_SwapNegateKeepsCharge ==
    Executed("charge_setup") =>
        TotalCharge(-left_field, -right_field, area) = total_charge

\* C12 witness: the charge cell has run with the fields 0.05 and -0.025,
\* whose swapped and negated pair 0.025 and -0.05 is another pair, and the
\* charge is not 0.
C12_Witness ==
    /\ Executed("charge_setup")
    /\ right_field = 500 /\ left_field = -250
    /\ -left_field # right_field
    /\ total_charge # 0

\* The product a * b, exactly: its sign, floor(|a * b| / SCALE) and
\* |a * b| mod SCALE.
ExactProd(a, b) ==
    << Sgn(a) * Sgn(b), ProdFloor(Abs(a), Abs(b)), ProdRem(Abs(a), Abs(b)) >>

\* The cross product of the 3-vectors a and b is zero: they are collinear,
\* or one of them is zero.
Parallel(a, b) ==
    /\ ExactProd(a[2], b[3]) = ExactProd(a[3], b[2])
    /\ ExactProd(a[3], b[1]) = ExactProd(a[1], b[3])
    /\ ExactProd(a[1], b[2]) = ExactProd(a[2], b[1])

\* C13: once the charge cell has run on a cell whose computed in-plane area
\* is 0, total_charge and the charge entry are 0 for every pair of fields,
\* no fault has occurred and the execution has gone on; and the computed area
\* is 0 whenever the first two lattice vectors are collinear or one is zero.
C13_DegenerateCellNoCharge ==
    Executed("charge_setup") =>
        /\ area = 0 =>
              /\ total_charge = 0
              /\ input.charged.charge = 0
              /\ ~Executed("run") => (~fault /\ pc > PlaceOf("charge_setup"))
        /\ Parallel(structure.cell[1], structure.cell[2]) => area = 0

\* C13 witness: the charge cell has run on the collinear cell with the
\* fields 0.05 and -0.05, the charge is 0 and the next cell is due.
C13_Witness ==
    /\ Executed("charge_setup")
    /\ Parallel(structure.cell[1], structure.cell[2])
    /\ right_field = 500 /\ left_field = -500
    /\ area = 0 /\ total_charge = 0
    /\ AtCell("dipole_setup")

RECURSIVE Perms(_)
\* The orderings of the finite set S, as sequences.
Perms(S) ==
    IF S = {} THEN { << >> }
    ELSE UNION { { <<e>> \o p : p \in Perms(S \ {e}) } : e \in S }

\* Sample v with the values of the grid points c[1], c[2], ... replaced by
\* those of the grid points p[1], p[2], ..., p an ordering of the same points.
Reordered(v, c, p) ==
    [v EXCEPT !.data =
        [t \in DOMAIN v.data |->
            IF \E i \in 1..Len(c) : c[i] = t
            THEN v.data[p[CHOOSE i \in 1..Len(c) : c[i] = t]]
            ELSE v.data[t]]]

\* C14: once the plot cell has run, the planar average of the sample with
\* the values of any one plane k reordered in any way is planar_avg, entry
\* by entry.
C14_AverageIgnoresOrderInPlane ==
    Executed("plot") =>
        \A k \in 1..v_electrostatic.shape[3] :
            LET c == CHOOSE q \in Perms(Plane(v_electrostatic, k)) : TRUE
            IN  \A p \in Perms(Plane(v_electrostatic, k)) :
                    PlanarAvg(Reordered(v_electrostatic, c, p)) = planar_avg

\* C14 witness: the plot cell has run on a 2 x 1 x 2 sample whose second
\* plane holds two different values, so that reordering it changes the
\* sample, and whose planes have different averages.
C14_Witness ==
    /\ Executed("plot")
    /\ v_electrostatic.shape = <<2, 1, 2>>
    /\ v_electrostatic.data[<<1, 1, 2>>] # v_electrostatic.data[<<2, 1, 2>>]
    /\ Reordered(v_electrostatic, << <<1, 1, 2>>, <<2, 1, 2>> >>,
                 << <<2, 1, 2>>, <<1, 1, 2>> >>) # v_electrostatic
    /\ planar_avg[1] # planar_avg[2]

\* Every grid point of sample v holds the value c.
Uniform(v, c) == \A t \in DOMAIN v.data : v.data[t] = c

\* C15: once the plot cell has run on a sample whose every value is c, the
\* average along each of the three axes has one entry per point of that axis
\* and every entry is c; planar_avg is that of the third axis.
C15_UniformSampleAveragesToConstant ==
    \A c \in PotValues :
        (Executed("plot") /\ Uniform(v_electrostatic, c)) =>
            /\ \A ind \in 0..2 :
                  GetAverageAlongAxis(v_electrostatic, ind)
                      = [i \in 1..v_electrostatic.shape[ind + 1] |-> c]
            /\ planar_avg = [k \in 1..v_electrostatic.shape[3] |-> c]

\* C15 witness: the plot cell has run on a 2 x 1 x 2 sample whose every
\* value is 4, and planar_avg is 4, 4.
C15_Witness ==
    /\ Executed("plot")
    /\ v_electrostatic.shape = <<2, 1, 2>>
    /\ Uniform(v_electrostatic, 4)
    /\ planar_avg = <<4, 4>>

\* What a step leaves alone: the structure's cell once built, the fields,
\* the Bohr cell and the charge once the charge cell has run, the engine's
\* potential once written and the retrieved sample once retrieved.
C16_Kept ==
    /\ Executed("build_structure") => structure.cell' = structure.cell
    /\ Executed("charge_setup") =>
          /\ right_field' = right_field
          /\ left_field' = left_field
          /\ total_charge' = total_charge
          /\ cell' = cell
    /\ Executed("run") => output' = output
    /\ Executed("plot") => v_electrostatic' = v_electrostatic

\* What a state shows of it: no cell has run twice; the structure's cell is
\* the one create_surface built, in Angstrom, the variable cell being its
\* multiple in Bohr; and the plot axis ends at the Angstrom cell's entry.
C16_Separate ==
    /\ \A c \in {CellOrder[i] : i \in 1..Len(CellOrder)} :
          Cardinality({i \in 1..Len(log) : log[i] = c}) <= 1
    /\ Executed("build_structure") =>
          structure.cell \in {s.cell : s \in Structures}
    /\ Executed("charge_setup") =>
          cell = [i \in 1..3 |-> [j \in 1..3 |->
                     MulFP(structure.cell[i][j], ANGSTROM_TO_BOHR)]]
    /\ (Executed("plot") /\ Len(x) >= 2) => x[Len(x)] = structure.cell[3][3]

\* C16: in every execution each cell runs at most once, and no later step
\* changes the structure's cell matrix, right_field, left_field,
\* total_charge or the potential sample; the Bohr cell is a value of its
\* own, the structure's cell stays in Angstrom and the plot axis reads it.
C16_NoMutationAfterCreation ==
    /\ []C16_Separate
    /\ [][C16_Kept]_vars

\* C16 witness: the whole notebook has run; the Bohr cell differs from the
\* structure's, the charge is not 0 and the axis ends at the Angstrom entry.
C16_Witness ==
    /\ log = CellOrder
    /\ cell # structure.cell
    /\ total_charge # 0
    /\ Len(x) >= 2
    /\ x[Len(x)] = structure.cell[3][3]
    /\ x[Len(x)] # cell[3][3]

\* The atoms the structure holds frozen, and those it leaves free.
FrozenNow ==
    {i \in 1..Len(structure.selective_dynamics) :
        structure.selective_dynamics[i] = <<FALSE, FALSE, FALSE>>}

FreeNow ==
    {i \in 1..Len(structure.selective_dynamics) :
        structure.selective_dynamics[i] = <<TRUE, TRUE, TRUE>>}

\* No frozen atom lies above a free one: the frozen atoms are the bottom
\* of the slab.
FrozenAreLowest ==
    \A i \in FrozenNow : \A j \in FreeNow :
        structure.positions[i][3] <= structure.positions[j][3]

\* The atoms are in ascending order of z.
AscendingZ ==
    \A i \in 1..(Len(structure.positions) - 1) :
        structure.positions[i][3] <= structure.positions[i + 1][3]

\* Once the freeze cell has run on n atoms, atom i (counted from 1) is
\* frozen when i <= floor(n/2) and free otherwise; for odd n the middle atom
\* is free; the engine receives these flags.
C17_Flags ==
    Executed("freeze") =>
        LET n == Len(structure.positions)
        IN  /\ Len(structure.selective_dynamics) = n
            /\ \A i \in 1..n :
                  structure.selective_dynamics[i]
                      = IF 2 * i <= n THEN <<FALSE, FALSE, FALSE>>
                                      ELSE <<TRUE, TRUE, TRUE>>
            /\ n % 2 = 1 => (n + 1) \div 2 \in FreeNow
            /\ run_count > 0 =>
                  submitted.structure.selective_dynamics
                      = structure.selective_dynamics

\* C17 as stated: the flags, and the frozen atoms are the bottom of the slab
\* only when the atoms are in ascending order of z.
C17_BottomOnlyWhenAscending ==
    /\ C17_Flags
    /\ (Executed("freeze") /\ FrozenAreLowest) => AscendingZ

\* C17 as amended: the flags, and the frozen atoms are the bottom of the
\* slab whenever the atoms are in ascending order of z.
C17_BottomWhenAscending ==
    /\ C17_Flags
    /\ (Executed("freeze") /\ AscendingZ) => FrozenAreLowest

\* C17 witness: the freeze cell has run on the four atoms of the Al slab, in
\* ascending order of z: the first two are frozen, the last two free.
C17_Witness ==
    /\ Executed("freeze")
    /\ structure.positions = AlSlab.positions
    /\ AscendingZ
    /\ FrozenNow = {1, 2} /\ FreeNow = {3, 4}

\* The lowest z coordinate among the structure's atoms.
LowestZ ==
    CHOOSE z \in {structure.positions[i][3] :
                     i \in 1..Len(structure.positions)} :
        \A i \in 1..Len(structure.positions) : z <= structure.positions[i][3]

\* The configuration the notebook's constants determine: the structure
\* create_surface built with the first floor(n/2) atoms frozen, the DFT and
\* k-point settings, and the charge, excess electrons, dipole correction and
\* zField of the two fields.
ConfigOfConstants ==
    LET q == DivFP(MulFP(right_field - left_field, area), 4 * PI)
    IN  [structure |->
            [cell |-> structure.cell,
             positions |-> structure.positions,
             selective_dynamics |->
                 [i \in 1..Len(structure.positions) |->
                     IF 2 * i <= Len(structure.positions)
                     THEN <<FALSE, FALSE, FALSE>> ELSE <<TRUE, TRUE, TRUE>>]],
         input |->
            [assigned |-> {"calc", "VaspPot", "potType", "potential",
                           "kpoints", "center_shift"} \cup DipoleOptions,
             calc |-> "minimize", VaspPot |-> FALSE, potType |-> "AtomPAW",
             potential |-> "Al_GGA.atomicdata", kpoints |-> <<9, 9, 1>>,
             center_shift |-> <<5000, 5000, 2500>>,
             charged |-> [charge |-> q, z |-> LowestZ],
             nExcessElectrons |-> -q, dipoleCorrection |-> TRUE,
             zField |-> MulFP(left_field, HARTREE_TO_EV)]]

\* C18: whatever jobs and results the project held when the execution began,
\* after the create cell the project holds no job, no result is stored and
\* the job is new; job.run starts the engine, once, and hands it the
\* configuration the constants determine, the same in a first execution and
\* in a later one; afterwards the project holds job Al_111 alone, with the
\* outcome of this run.
C18_RerunSameConfigFreshRun ==
    /\ (Executed("create_job") /\ ~Executed("run")) =>
          /\ project = {}
          /\ output = NoSample
          /\ job_status = "initialized"
          /\ run_count = 0
    /\ Executed("run") =>
          /\ run_count = 1
          /\ project = {"Al_111"}
          /\ job_status \in {"finished", "aborted"}
          /\ structure.cell \in {s.cell : s \in Structures}
          /\ submitted = ConfigOfConstants

\* C18 witness: an execution that began with a job Al_111 and its potential
\* in the project has run the engine afresh, with a non-zero charge, and the
\* engine has left a potential other than the stored one.
C18_Witness ==
    /\ rerun
    /\ Executed("run")
    /\ run_count = 1
    /\ job_status = "finished"
    /\ output # StaleSample
    /\ submitted.input.charged.charge # 0
    /\ submitted = ConfigOfConstants

=============================================================================
